---- MODULE Spec2Model ----
(***************************************************************************)
(* A model of flight.py: the SortedTableMap (a map kept as a sorted list   *)
(* searched by binary search), and the Flight / FlightDatabase seat        *)
(* counters that are stored in it.                                         *)
(*                                                                         *)
(* Python lists are indexed from 0; TLA+ sequences from 1.  The model      *)
(* keeps the code's 0-based indices everywhere and reads the list through  *)
(* At(t, j), so that low, high, mid and j have the values they have in the *)
(* code.                                                                   *)
(***************************************************************************)
EXTENDS Integers, Sequences, FiniteSets

VARIABLES
    table,    \* SortedTableMap._table: the list of _Item
    pre,      \* _table as it was when the last call began
    call,     \* the last call: its name and arguments
    ret,      \* what the last call returned or raised
    latest,   \* history: per key, the value of the most recent set(k, v)
              \* not followed by a delete(k) that returned normally
    frame,    \* the pending activation of _find_index: k, low, high
    reads     \* the indices _find_index has read from _table so far

vars == <<table, pre, call, ret, latest, frame, reads>>

\* Bounds of the model.
MaxKey == 3
MaxVal == 2
MaxLocKey == 5
MaxFlightKey == 2
MaxSeats == 1

Keys == 1..MaxKey
Values == 1..MaxVal

\* Python's None, and a value that is not None.
None == <<>>
Some(x) == <<x>>

\* MapBase._Item
Item(k, v) == [key |-> k, value |-> v]

\* self._table[j], j counted from 0
At(t, j) == t[j + 1]

\* len(self._table)
len(t) == Len(t)

\* insert as it would be with append in place of insert(j, ...).
insert_append(t, j, x) == t \o <<x>>

\* list.insert(j, x) for 0 <= j <= len
insert(t, j, x) == SubSeq(t, 1, j) \o <<x>> \o SubSeq(t, j + 1, Len(t))

\* list.pop(j) for 0 <= j < len: the list that is left
pop(t, j) == SubSeq(t, 1, j) \o SubSeq(t, j + 2, Len(t))

\* SortedTableMap._find_index
RECURSIVE find_index(_, _, _, _)
find_index(t, k, low, high) ==
    IF high < low
    THEN high + 1
    ELSE LET mid == (low + high) \div 2
         IN  IF k = At(t, mid).key
             THEN mid
             ELSE IF k < At(t, mid).key
                  THEN find_index(t, k, low, mid - 1)
                  ELSE find_index(t, k, mid + 1, high)

\* SortedTableMap.__getitem__: the value, or KeyError raised
getitem(t, k) ==
    LET j == find_index(t, k, 0, len(t) - 1)
    IN  IF j = len(t) \/ At(t, j).key # k
        THEN [raised |-> TRUE, value |-> None]
        ELSE [raised |-> FALSE, value |-> Some(At(t, j).value)]

\* __setitem__ as it would be without the test for a stored key.
setitem_dup(t, k, v) ==
    LET j == find_index(t, k, 0, len(t) - 1)
    IN  insert(t, j, Item(k, v))

\* __setitem__ as it would be if a stored key kept its old value.
setitem_keep(t, k, v) ==
    LET j == find_index(t, k, 0, len(t) - 1)
    IN  IF j < len(t) /\ At(t, j).key = k
        THEN t
        ELSE insert(t, j, Item(k, v))

\* SortedTableMap.__setitem__: the table it leaves
setitem(t, k, v) ==
    LET j == find_index(t, k, 0, len(t) - 1)
    IN  IF j < len(t) /\ At(t, j).key = k
        THEN [t EXCEPT ![j + 1].value = v]
        ELSE insert(t, j, Item(k, v))

\* __delitem__ as it would be without the comparison of the key at j.
delitem_nocheck(t, k) ==
    LET j == find_index(t, k, 0, len(t) - 1)
    IN  IF j = len(t)
        THEN [raised |-> TRUE, table |-> t]
        ELSE [raised |-> FALSE, table |-> pop(t, j)]

\* SortedTableMap.__delitem__: KeyError raised, or the table it leaves
delitem(t, k) ==
    LET j == find_index(t, k, 0, len(t) - 1)
    IN  IF j = len(t) \/ At(t, j).key # k
        THEN [raised |-> TRUE, table |-> t]
        ELSE [raised |-> FALSE, table |-> pop(t, j)]

\* SortedTableMap.__iter__: the keys the generator yields, in order
iter(t) == [i \in 1..Len(t) |-> t[i].key]

\* SortedTableMap.__reversed__: the keys the generator yields, in order
reversed(t) == [i \in 1..Len(t) |-> t[Len(t) + 1 - i].key]

\* find_min as it would be without the length test: _table[0] raises.
find_min_unguarded(t) ==
    IF len(t) > 0 THEN <<At(t, 0).key, At(t, 0).value>> ELSE <<"IndexError">>

\* SortedTableMap.find_min
find_min(t) ==
    IF len(t) > 0 THEN <<At(t, 0).key, At(t, 0).value>> ELSE None

\* SortedTableMap.find_max (self._table[-1] is the last item)
find_max(t) ==
    IF len(t) > 0
    THEN <<At(t, len(t) - 1).key, At(t, len(t) - 1).value>>
    ELSE None

\* SortedTableMap.find_ge
find_ge(t, k) ==
    LET j == find_index(t, k, 0, len(t) - 1)
    IN  IF j < len(t) THEN <<At(t, j).key, At(t, j).value>> ELSE None

\* SortedTableMap.find_lt
find_lt(t, k) ==
    LET j == find_index(t, k, 0, len(t) - 1)
    IN  IF j > 0 THEN <<At(t, j - 1).key, At(t, j - 1).value>> ELSE None

\* find_gt as it would be without the step past an exact match.
find_gt_noadvance(t, k) ==
    LET j == find_index(t, k, 0, len(t) - 1)
    IN  IF j < len(t) THEN <<At(t, j).key, At(t, j).value>> ELSE None

\* SortedTableMap.find_gt
find_gt(t, k) ==
    LET j0 == find_index(t, k, 0, len(t) - 1)
        j  == IF j0 < len(t) /\ At(t, j0).key = k THEN j0 + 1 ELSE j0
    IN  IF j < len(t) THEN <<At(t, j).key, At(t, j).value>> ELSE None

\* The loop of find_range as its docstring has it: key <= stop.
RECURSIVE find_range_from_closed(_, _, _)
find_range_from_closed(t, j, stop) ==
    IF j < len(t) /\ (stop = None \/ At(t, j).key <= stop[1])
    THEN <<<<At(t, j).key, At(t, j).value>>>>
         \o find_range_from_closed(t, j + 1, stop)
    ELSE <<>>

\* The while loop of find_range from index j on: the pairs it yields
RECURSIVE find_range_from(_, _, _)
find_range_from(t, j, stop) ==
    IF j < len(t) /\ (stop = None \/ At(t, j).key < stop[1])
    THEN <<<<At(t, j).key, At(t, j).value>>>> \o find_range_from(t, j + 1, stop)
    ELSE <<>>

\* SortedTableMap.find_range, consumed to its end: the pairs it yields
find_range(t, start, stop) ==
    LET j == IF start = None
             THEN 0
             ELSE find_index(t, start[1], 0, len(t) - 1)
    IN  find_range_from(t, j, stop)

\* No activation of _find_index is pending.
NoFrame == [low |-> 0, high |-> 0, done |-> TRUE, j |-> 0, depth |-> 0]

\* SortedTableMap.__init__
Init ==
    /\ table = <<>>
    /\ pre = <<>>
    /\ call = [name |-> "__init__"]
    /\ ret = None
    /\ latest = [k \in Keys |-> None]
    /\ frame = NoFrame
    /\ reads = {}

\* m[k] = v
Set(k, v) ==
    /\ table' = setitem(table, k, v)
    /\ pre' = table
    /\ call' = [name |-> "set", k |-> k, v |-> v]
    /\ ret' = None
    /\ latest' = [latest EXCEPT ![k] = Some(v)]
    /\ UNCHANGED <<frame, reads>>

\* del m[k]
Delete(k) ==
    LET r == delitem(table, k)
    IN  /\ table' = r.table
        /\ pre' = table
        /\ call' = [name |-> "delete", k |-> k]
        /\ ret' = [raised |-> r.raised]
        /\ latest' = IF r.raised THEN latest ELSE [latest EXCEPT ![k] = None]
        /\ UNCHANGED <<frame, reads>>

\* A call that only reads the table.
Query(c, r) ==
    /\ pre' = table
    /\ call' = c
    /\ ret' = r
    /\ UNCHANGED <<table, latest, frame, reads>>

Get(k) == Query([name |-> "get", k |-> k], getitem(table, k))
Size == Query([name |-> "size"], len(table))
Iterate == Query([name |-> "iter"], iter(table))
IterateReversed == Query([name |-> "reversed"], reversed(table))
FindMin == Query([name |-> "find_min"], find_min(table))
FindMax == Query([name |-> "find_max"], find_max(table))
FindGe(k) == Query([name |-> "find_ge", k |-> k], find_ge(table, k))
FindLt(k) == Query([name |-> "find_lt", k |-> k], find_lt(table, k))
FindGt(k) == Query([name |-> "find_gt", k |-> k], find_gt(table, k))
FindRange(start, stop) ==
    Query([name |-> "find_range", start |-> start, stop |-> stop],
          find_range(table, start, stop))

OptKeys == {None} \cup {Some(k) : k \in Keys}

Next ==
    \/ \E k \in Keys, v \in Values : Set(k, v)
    \/ \E k \in Keys : Delete(k)
    \/ \E k \in Keys : Get(k)
    \/ Size
    \/ Iterate
    \/ IterateReversed
    \/ FindMin
    \/ FindMax
    \/ \E k \in Keys : FindGe(k)
    \/ \E k \in Keys : FindLt(k)
    \/ \E k \in Keys : FindGt(k)
    \/ \E start \in OptKeys, stop \in OptKeys : FindRange(start, stop)

Spec == Init /\ [][Next]_vars

(***************************************************************************)
(* _find_index one activation at a time.  call holds the arguments of the  *)
(* outermost call, frame the low and high of the activation that runs      *)
(* next, reads every index of _table read so far.                          *)
(***************************************************************************)

LocKeys == 1..MaxLocKey

\* The sorted list of the keys of S, each with the value 1.
RECURSIVE TableOf(_)
TableOf(S) ==
    IF S = {}
    THEN <<>>
    ELSE LET m == CHOOSE x \in S : \A y \in S : y <= x
         IN  Append(TableOf(S \ {m}), Item(m, 1))

\* The strictly ascending tables over LocKeys: the tables set and delete
\* build.
AscendingTables == {TableOf(S) : S \in SUBSET LocKeys}

InitLoc ==
    /\ table \in AscendingTables
    /\ pre = table
    /\ \E k \in LocKeys, low \in 0..len(table),
          high \in (0 - 1)..(len(table) - 1) :
          /\ call = [name |-> "_find_index", k |-> k, low |-> low, high |-> high]
          /\ frame = [low |-> low, high |-> high, done |-> FALSE, j |-> 0,
                      depth |-> 0]
    /\ ret = None
    /\ latest = [k \in Keys |-> None]
    /\ reads = {}

\* mid = (low + high) // 2
mid_of(low, high) == (low + high) \div 2

\* The empty range as it would be answered with high in place of high + 1.
no_element_high(high) == high

\* return high + 1
no_element(high) == high + 1

\* The activation returns j.
Return(j) ==
    /\ frame' = [frame EXCEPT !.done = TRUE, !.j = j, !.depth = @ + 1]
    /\ ret' = Some(j)

\* The activation calls _find_index(k, low, high).
Recurse(low, high) ==
    /\ frame' = [frame EXCEPT !.low = low, !.high = high, !.depth = @ + 1]
    /\ ret' = ret

\* if high < low: return high + 1
NoElement ==
    /\ ~frame.done
    /\ frame.high < frame.low
    /\ Return(no_element(frame.high))
    /\ UNCHANGED <<table, pre, call, latest, reads>>

\* if k == self._table[mid]._key: return mid
ExactMatch ==
    /\ ~frame.done
    /\ ~(frame.high < frame.low)
    /\ LET mid == mid_of(frame.low, frame.high)
       IN  /\ call.k = At(table, mid).key
           /\ reads' = reads \cup {mid}
           /\ Return(mid)
    /\ UNCHANGED <<table, pre, call, latest>>

\* elif k < self._table[mid]._key: return self._find_index(k, low, mid - 1)
SearchLeft ==
    /\ ~frame.done
    /\ ~(frame.high < frame.low)
    /\ LET mid == mid_of(frame.low, frame.high)
       IN  /\ call.k # At(table, mid).key
           /\ call.k < At(table, mid).key
           /\ reads' = reads \cup {mid}
           /\ Recurse(frame.low, mid - 1)
    /\ UNCHANGED <<table, pre, call, latest>>

\* else: return self._find_index(k, mid + 1, high)
SearchRight ==
    /\ ~frame.done
    /\ ~(frame.high < frame.low)
    /\ LET mid == mid_of(frame.low, frame.high)
       IN  /\ call.k # At(table, mid).key
           /\ ~(call.k < At(table, mid).key)
           /\ reads' = reads \cup {mid}
           /\ Recurse(mid + 1, frame.high)
    /\ UNCHANGED <<table, pre, call, latest>>

NextLoc == NoElement \/ ExactMatch \/ SearchLeft \/ SearchRight

\* A call runs to its return: nothing suspends an activation.
SpecLoc == InitLoc /\ [][NextLoc]_vars /\ WF_vars(NextLoc)

(***************************************************************************)
(* Flight and FlightDatabase.  The database's _flights is a SortedTableMap *)
(* whose values are Flight objects; the model keeps the two seat counters  *)
(* of a Flight.  A key (origin, destination, date, time) is a tuple of     *)
(* strings that Python compares lexicographically: a total order, which    *)
(* the model takes to be the order of the numbers 1..MaxFlightKey.         *)
(***************************************************************************)

FlightKeys == 1..MaxFlightKey
Seats == 0..MaxSeats
ClassTypes == {"first", "coach", "business"}

\* Flight.__init__: the seat counters
Flight(first, coach) == [seats_first |-> first, seats_coach |-> coach]

\* book_seat as it would be without the tests for a seat being left.
book_seat_unchecked(f, class_type) ==
    IF class_type = "first"
    THEN [flight |-> [f EXCEPT !.seats_first = @ - 1], ret |-> TRUE]
    ELSE IF class_type = "coach"
         THEN [flight |-> [f EXCEPT !.seats_coach = @ - 1], ret |-> TRUE]
         ELSE [flight |-> f, ret |-> FALSE]

\* Flight.book_seat: the flight as it is left, and the value returned
book_seat(f, class_type) ==
    IF class_type = "first" /\ f.seats_first > 0
    THEN [flight |-> [f EXCEPT !.seats_first = @ - 1], ret |-> TRUE]
    ELSE IF class_type = "coach" /\ f.seats_coach > 0
         THEN [flight |-> [f EXCEPT !.seats_coach = @ - 1], ret |-> TRUE]
         ELSE [flight |-> f, ret |-> FALSE]

\* Flight.cancel_booking: the flight as it is left, and the value returned
cancel_booking(f, class_type) ==
    IF class_type = "first"
    THEN [flight |-> [f EXCEPT !.seats_first = @ + 1], ret |-> TRUE]
    ELSE IF class_type = "coach"
         THEN [flight |-> [f EXCEPT !.seats_coach = @ + 1], ret |-> TRUE]
         ELSE [flight |-> f, ret |-> FALSE]

\* key in self._flights: Mapping.__contains__ tries self[key] and answers
\* False when it raises KeyError
contains(t, key) == ~getitem(t, key).raised

\* FlightDatabase.add_flight: the table it leaves
add_flight(t, key, f) ==
    IF contains(t, key) THEN t ELSE setitem(t, key, f)

\* self._flights[key] for a stored key: the Flight the table's item refers to
stored(t, key) == getitem(t, key).value[1]

\* The table once a method has left the Flight object of a stored key as f:
\* the item refers to the object, so the table sees the change.
mutated(t, key, f) ==
    LET j == find_index(t, key, 0, len(t) - 1)
    IN  [t EXCEPT ![j + 1].value = f]

\* flight.book_seat(class_type) on the Flight stored under key
stored_book_seat(t, key, class_type) ==
    LET r == book_seat(stored(t, key), class_type)
    IN  [table |-> mutated(t, key, r.flight), ret |-> r.ret]

\* flight.cancel_booking(class_type) on the Flight stored under key
stored_cancel_booking(t, key, class_type) ==
    LET r == cancel_booking(stored(t, key), class_type)
    IN  [table |-> mutated(t, key, r.flight), ret |-> r.ret]

\* FlightDatabase.book_seat
db_book_seat(t, key, class_type) ==
    IF contains(t, key)
    THEN stored_book_seat(t, key, class_type)
    ELSE [table |-> t, ret |-> FALSE]

\* FlightDatabase.cancel_booking
db_cancel_booking(t, key, class_type) ==
    IF contains(t, key)
    THEN stored_cancel_booking(t, key, class_type)
    ELSE [table |-> t, ret |-> FALSE]

\* FlightDatabase.__init__
InitDB ==
    /\ table = <<>>
    /\ pre = <<>>
    /\ call = [name |-> "__init__"]
    /\ ret = None
    /\ latest = [k \in Keys |-> None]
    /\ frame = NoFrame
    /\ reads = {}

\* The outcome r of a call c on the database.
DbCall(c, r) ==
    /\ \A i \in 1..Len(r.table) :
          /\ r.table[i].value.seats_first <= MaxSeats
          /\ r.table[i].value.seats_coach <= MaxSeats
    /\ table' = r.table
    /\ pre' = table
    /\ call' = c
    /\ ret' = r.ret
    /\ UNCHANGED <<latest, frame, reads>>

\* db.add_flight(Flight(...)) with seat counts that are integers >= 0
AddFlight(key, first, coach) ==
    DbCall([name |-> "add_flight", key |-> key],
           [table |-> add_flight(table, key, Flight(first, coach)),
            ret |-> None])

\* db.book_seat(origin, destination, date, time, class_type)
DbBookSeat(key, class_type) ==
    DbCall([name |-> "book_seat", key |-> key, class_type |-> class_type],
           db_book_seat(table, key, class_type))

\* db.cancel_booking(origin, destination, date, time, class_type)
DbCancelBooking(key, class_type) ==
    DbCall([name |-> "cancel_booking", key |-> key, class_type |-> class_type],
           db_cancel_booking(table, key, class_type))

\* flight.book_seat(class_type) on a Flight that was added to the database
FlightBookSeat(key, class_type) ==
    /\ contains(table, key)
    /\ DbCall([name |-> "Flight.book_seat", key |-> key,
               class_type |-> class_type],
              stored_book_seat(table, key, class_type))

\* flight.cancel_booking(class_type) on a Flight that was added to the database
FlightCancelBooking(key, class_type) ==
    /\ contains(table, key)
    /\ DbCall([name |-> "Flight.cancel_booking", key |-> key,
               class_type |-> class_type],
              stored_cancel_booking(table, key, class_type))

NextDB ==
    \/ \E key \in FlightKeys, first \in Seats, coach \in Seats :
          AddFlight(key, first, coach)
    \/ \E key \in FlightKeys, class_type \in ClassTypes :
          DbBookSeat(key, class_type)
    \/ \E key \in FlightKeys, class_type \in ClassTypes :
          DbCancelBooking(key, class_type)
    \/ \E key \in FlightKeys, class_type \in ClassTypes :
          FlightBookSeat(key, class_type)
    \/ \E key \in FlightKeys, class_type \in ClassTypes :
          FlightCancelBooking(key, class_type)

SpecDB == InitDB /\ [][NextDB]_vars

(***************************************************************************)
(* The properties of the SortedTableMap, checked under Spec.               *)
(***************************************************************************)

KeysOf(t) == {t[i].key : i \in 1..Len(t)}
Pairs(t) == [i \in 1..Len(t) |-> <<t[i].key, t[i].value>>]
PairSet(t) == {Pairs(t)[i] : i \in 1..Len(t)}
StrictlyAscending(t) == \A i, j \in 1..Len(t) : i < j => t[i].key < t[j].key
AscendingKeys(s) == \A i, j \in 1..Len(s) : i < j => s[i] < s[j]
Live == {k \in Keys : latest[k] # None}
KeyError == [raised |-> TRUE, value |-> None]
Returned(v) == [raised |-> FALSE, value |-> Some(v)]

\* C1: after any sequence of set and delete calls, failing ones included,
\* the table's keys are strictly ascending (so no key is stored twice) and
\* size() is the number of keys inserted and not since deleted.
C1_SortedUniqueCounted ==
    /\ StrictlyAscending(table)
    /\ len(table) = Cardinality(Live)
    /\ KeysOf(table) = Live

\* C1 witness: a delete succeeded and left at least two keys behind.
C1_Witness ==
    /\ call.name = "delete"
    /\ ~ret.raised
    /\ len(table) >= 2
    /\ len(pre) = len(table) + 1

\* C2: the table is a map: get(k) returns the value of the most recent
\* set(k, v) not followed by a successful delete(k) and raises KeyError
\* otherwise; a set of a stored key leaves the size alone; a successful
\* delete lowers the size by one; the other keys' values are untouched.
C2_MapBehaviour ==
    /\ \A k \in Keys :
          getitem(table, k) =
             IF latest[k] = None THEN KeyError ELSE Returned(latest[k][1])
    /\ call.name = "get" =>
          ret = IF latest[call.k] = None
                THEN KeyError
                ELSE Returned(latest[call.k][1])
    /\ call.name = "set" =>
          /\ getitem(table, call.k) = Returned(call.v)
          /\ call.k \in KeysOf(pre) => len(table) = len(pre)
          /\ call.k \notin KeysOf(pre) => len(table) = len(pre) + 1
          /\ \A k \in Keys \ {call.k} : getitem(table, k) = getitem(pre, k)
    /\ call.name = "delete" =>
          /\ getitem(table, call.k) = KeyError
          /\ ~ret.raised => len(table) = len(pre) - 1
          /\ \A k \in Keys \ {call.k} : getitem(table, k) = getitem(pre, k)

\* C2 witness: a set overwrote the different value of a stored key.
C2_Witness ==
    /\ call.name = "set"
    /\ call.k \in KeysOf(pre)
    /\ getitem(pre, call.k) # Returned(call.v)
    /\ len(table) >= 2

\* C3: get(k) and delete(k) raise KeyError exactly when k is not stored,
\* and a call that raised left the table as it was.
C3_FailureLeavesTable ==
    /\ \A k \in Keys :
          /\ getitem(table, k).raised <=> k \notin Live
          /\ delitem(table, k).raised <=> k \notin Live
          /\ delitem(table, k).raised => delitem(table, k).table = table
    /\ call.name \in {"get", "delete"} =>
          /\ ret.raised <=> call.k \notin KeysOf(pre)
          /\ ret.raised => table = pre

\* C3 witness: a delete of a key that is not stored raised on a table
\* that holds keys on both sides of it.
C3_Witness ==
    /\ call.name = "delete"
    /\ ret.raised
    /\ \E a, b \in KeysOf(table) : a < call.k /\ call.k < b

InRange(key, start, stop) ==
    /\ start = None \/ start[1] <= key
    /\ stop = None \/ key < stop[1]

InClosedRange(key, start, stop) ==
    /\ start = None \/ start[1] <= key
    /\ stop = None \/ key <= stop[1]

HalfOpen(t, start, stop) ==
    SelectSeq(Pairs(t), LAMBDA p : InRange(p[1], start, stop))

Closed(t, start, stop) ==
    SelectSeq(Pairs(t), LAMBDA p : InClosedRange(p[1], start, stop))

IsLeast(r, t, ok) ==
    IF ok # {}
    THEN r \in PairSet(t) /\ r[1] \in ok /\ \A x \in ok : r[1] <= x
    ELSE r = None

IsGreatest(r, t, ok) ==
    IF ok # {}
    THEN r \in PairSet(t) /\ r[1] \in ok /\ \A x \in ok : r[1] >= x
    ELSE r = None

Ge(t, k) == {x \in KeysOf(t) : x >= k}
Gt(t, k) == {x \in KeysOf(t) : x > k}
Lt(t, k) == {x \in KeysOf(t) : x < k}

\* C5: find_ge(k) is the entry of the least stored key >= k, find_gt(k) of
\* the least stored key > k, find_lt(k) of the greatest stored key < k;
\* each is None exactly when no stored key qualifies; the table is left
\* as it was.
C5_Neighbours ==
    /\ \A k \in Keys :
          /\ IsLeast(find_ge(table, k), table, Ge(table, k))
          /\ IsLeast(find_gt(table, k), table, Gt(table, k))
          /\ IsGreatest(find_lt(table, k), table, Lt(table, k))
    /\ call.name = "find_ge" =>
          IsLeast(ret, pre, Ge(pre, call.k)) /\ table = pre
    /\ call.name = "find_gt" =>
          IsLeast(ret, pre, Gt(pre, call.k)) /\ table = pre
    /\ call.name = "find_lt" =>
          IsGreatest(ret, pre, Lt(pre, call.k)) /\ table = pre

\* C5 witness: find_gt of a stored key returned the next stored key.
C5_Witness ==
    /\ call.name = "find_gt"
    /\ call.k \in KeysOf(table)
    /\ ret # None
    /\ len(table) >= 3

\* C6: __iter__ yields every stored key once, in strictly increasing
\* order, and __reversed__ yields that sequence backwards; neither changes
\* the table.
C6_IterationOrder ==
    /\ AscendingKeys(iter(table))
    /\ Len(iter(table)) = Cardinality(Live)
    /\ {iter(table)[i] : i \in 1..Len(iter(table))} = Live
    /\ Len(reversed(table)) = Len(iter(table))
    /\ \A i \in 1..Len(iter(table)) :
          reversed(table)[i] = iter(table)[Len(iter(table)) + 1 - i]
    /\ call.name = "iter" => ret = iter(pre) /\ table = pre
    /\ call.name = "reversed" =>
          /\ Len(ret) = Len(iter(pre))
          /\ \A i \in 1..Len(ret) : ret[i] = iter(pre)[Len(ret) + 1 - i]
          /\ table = pre

\* C6 witness: a descending iteration over at least three keys.
C6_Witness ==
    /\ call.name = "reversed"
    /\ Len(ret) >= 3
    /\ ret[1] > ret[2]

\* C7: on a table with no entries size() is 0, find_min, find_max,
\* find_ge, find_lt and find_gt return None, find_range and both
\* iterations yield nothing, and get raises KeyError.
C7_EmptyTable ==
    table = <<>> =>
       /\ len(table) = 0
       /\ find_min(table) = None
       /\ find_max(table) = None
       /\ iter(table) = <<>>
       /\ reversed(table) = <<>>
       /\ \A k \in Keys :
             /\ find_ge(table, k) = None
             /\ find_lt(table, k) = None
             /\ find_gt(table, k) = None
             /\ getitem(table, k) = KeyError
       /\ \A start, stop \in OptKeys : find_range(table, start, stop) = <<>>
       /\ call.name = "size" => ret = 0
       /\ call.name \in {"find_min", "find_max", "find_ge", "find_lt",
                         "find_gt"} => ret = None
       /\ call.name \in {"iter", "reversed", "find_range"} => ret = <<>>
       /\ call.name = "get" => ret = KeyError

\* C7 witness: a table that a delete has just emptied.
C7_Witness ==
    /\ table = <<>>
    /\ call.name = "delete"
    /\ ~ret.raised
    /\ len(pre) = 1

\* C8: find_range(start, stop) yields the pairs with start <= key <= stop,
\* a stored key equal to stop included (the method's docstring).
C8_FindRangeClosed ==
    \A start, stop \in OptKeys :
       find_range(table, start, stop) = Closed(table, start, stop)

(***************************************************************************)
(* The locator, checked under SpecLoc.                                     *)
(***************************************************************************)

\* j splits t: the keys before index j are < k, those from j on are >= k.
Splits(t, k, j) ==
    /\ j \in 0..len(t)
    /\ \A i \in 0..(len(t) - 1) : i < j => At(t, i).key < k
    /\ \A i \in 0..(len(t) - 1) : i >= j => At(t, i).key >= k

FullRange == call.low = 0 /\ call.high = len(table) - 1

\* The activations return what the operator find_index, which the public
\* methods are modelled with, evaluates to.
LocatorAgrees ==
    frame.done =>
       frame.j = find_index(table, call.k, call.low, call.high)

C9_Result ==
    /\ reads \subseteq call.low..call.high
    /\ frame.depth <= len(table) + 1
    /\ frame.done =>
          /\ FullRange =>
                /\ Splits(table, call.k, frame.j)
                /\ \A j \in 0..len(table) :
                      Splits(table, call.k, j) => j = frame.j
                /\ call.k \in KeysOf(table) => At(table, frame.j).key = call.k
                /\ Gt(table, call.k) = {} /\ call.k \notin KeysOf(table) =>
                      frame.j = len(table)
          /\ call.high < call.low =>
                /\ frame.j = call.high + 1
                /\ frame.depth = 1
                /\ reads = {}

\* C9: on a strictly ascending table _find_index(k, 0, len - 1) returns,
\* and what it returns is the one index j of 0..len with every key before
\* j < k and every key from j on >= k (len when no key is >= k, the index
\* of k when k is stored); with high < low it returns high + 1 at once; it
\* reads no index outside low..high.
C9_Locator == []C9_Result /\ <>(frame.done)

\* C9 witness: a search of a whole table of at least three keys for a key
\* that is not stored ended between two stored keys, after going both ways.
C9_Witness ==
    /\ frame.done
    /\ FullRange
    /\ len(table) >= 3
    /\ call.k \notin KeysOf(table)
    /\ frame.j > 0
    /\ frame.j < len(table)
    /\ frame.depth >= 3

(***************************************************************************)
(* The seat counters, checked under SpecDB.                                *)
(***************************************************************************)

SeatsOf(f, class_type) ==
    IF class_type = "first" THEN f.seats_first ELSE f.seats_coach

OtherSeatsOf(f, class_type) ==
    IF class_type = "first" THEN f.seats_coach ELSE f.seats_first

\* Every stored flight but the one under key is as it was before the call.
OthersAsBefore(key) ==
    /\ KeysOf(table) = KeysOf(pre)
    /\ \A k \in KeysOf(pre) \ {key} : getitem(table, k) = getitem(pre, k)

\* C10: seat counts that start >= 0 stay >= 0 under book_seat and
\* cancel_booking with any class_type; book_seat returns True only when it
\* has taken exactly one seat from a class that had one, and returns False
\* and changes nothing when the class has no seat or is not a class; for a
\* key that is not in the database, book_seat and cancel_booking of the
\* database return False and change no flight.
C10_Seats ==
    /\ \A i \in 1..Len(table) :
          table[i].value.seats_first >= 0 /\ table[i].value.seats_coach >= 0
    /\ call.name \in {"book_seat", "Flight.book_seat"} =>
          /\ ret = TRUE =>
                /\ call.class_type \in {"first", "coach"}
                /\ call.key \in KeysOf(pre)
                /\ SeatsOf(stored(pre, call.key), call.class_type) > 0
                /\ SeatsOf(stored(table, call.key), call.class_type) =
                      SeatsOf(stored(pre, call.key), call.class_type) - 1
                /\ OtherSeatsOf(stored(table, call.key), call.class_type) =
                      OtherSeatsOf(stored(pre, call.key), call.class_type)
                /\ OthersAsBefore(call.key)
          /\ ret = FALSE => table = pre
          /\ (/\ call.key \in KeysOf(pre)
              /\ call.class_type \in {"first", "coach"}
              /\ SeatsOf(stored(pre, call.key), call.class_type) > 0)
                => ret = TRUE
    /\ (call.name \in {"book_seat", "cancel_booking"}
           /\ call.key \notin KeysOf(pre)) =>
          ret = FALSE /\ table = pre

\* C10 witness: the database booked the last seat of a class of one of two
\* stored flights.
C10_Witness ==
    /\ call.name = "book_seat"
    /\ ret = TRUE
    /\ SeatsOf(stored(table, call.key), call.class_type) = 0
    /\ len(table) >= 2

====
